---- MODULE Spec2Model ----
(***************************************************************************)
(* envin: a one-shot reporter of system, Rust toolchain and project        *)
(* information (src/src/main.rs).  The module models main's control flow,  *)
(* the four collectors and their display routines, with the host, the     *)
(* subprocesses and the two TOML files as inputs.                          *)
(*                                                                         *)
(* Text is modelled by TLA+ strings; the captured standard output of a     *)
(* tool, which the code splits into words, is a sequence of one-character  *)
(* strings.  Option<T> is a sequence of length 0 (None) or 1 (Some).       *)
(***************************************************************************)
EXTENDS Integers, Sequences, FiniteSets, TLC

VARIABLES pc, args, all, env, info, out, trace, exit

vars == <<pc, args, all, env, info, out, trace, exit>>

-----------------------------------------------------------------------------
(* Bounds of the model.                                                    *)

MaxOut == 4

MaxLockPkgs == 2

-----------------------------------------------------------------------------
(* Option and small helpers.                                               *)

None == <<>>

Some(x) == <<x>>

UnwrapOr(o, d) == IF o = None THEN d ELSE o[1]

RECURSIVE Str(_)
Str(cs) == IF cs = <<>> THEN "" ELSE Head(cs) \o Str(Tail(cs))

NoInfo == [kind |-> "none"]

-----------------------------------------------------------------------------
(* SystemInfo (main.rs 58-99).                                             *)
(* A u64 byte count is kept as two limbs, value = mib * 2^20 + rem with    *)
(* 0 <= rem < 2^20, so that 2 GiB and more stay within 32-bit integer      *)
(* arithmetic; below 2^53 the conversion to f64 and the two divisions by   *)
(* 1024.0 are exact, so the f64 printed is exactly mib + rem / 2^20.       *)

MiB == 1048576

U64(mib, rem) == [mib |-> mib, rem |-> rem]

TwoDigits(n) == IF n < 10 THEN "0" \o ToString(n) ELSE ToString(n)

\* format!("{:.2}", x as f64 / 1024.0 / 1024.0): the exact quotient printed
\* with two decimals, an exact tie rounded to the even digit.
FormatDiv1024Twice(x) ==
    LET scaled == x.rem * 100
        h      == scaled \div MiB
        t      == scaled % MiB
        up     == (2 * t > MiB) \/ (2 * t = MiB /\ h % 2 = 1)
        hund   == IF up THEN h + 1 ELSE h
        ip     == IF hund = 100 THEN x.mib + 1 ELSE x.mib
        fp     == IF hund = 100 THEN 0 ELSE hund
    IN  ToString(ip) \o "." \o TwoDigits(fp)

MemoryString(used, total) ==
    FormatDiv1024Twice(used) \o " GB / " \o FormatDiv1024Twice(total) \o " GB"

SystemInfoCollect(h) ==
    [ info |->
        [ kind      |-> "system",
          os        |-> UnwrapOr(h.name, "Unknown") \o " " \o UnwrapOr(h.os_version, ""),
          cpu       |-> h.brand,
          cpu_cores |-> UnwrapOr(h.physical_core_count, 0),
          memory    |-> MemoryString(h.used_memory, h.total_memory),
          shell     |-> UnwrapOr(h.shell, "Unknown") ],
      effects |-> << "sysinfo::System::new_all", "sysinfo::System::refresh_all",
                     "env::var SHELL" >> ]

SystemInfoDisplay(s) ==
    << "==========System Information==========",
       "  OS     : " \o s.os,
       "  CPU    : " \o s.cpu \o " (" \o ToString(s.cpu_cores) \o " cores)",
       "  Memory : " \o s.memory,
       "  Shell  : " \o s.shell >>

-----------------------------------------------------------------------------
(* CompilerInfo (main.rs 124-172).                                         *)

ChannelString(c) ==
    CASE c = "Dev"     -> "Dev"
      [] c = "Nightly" -> "Nightly"
      [] c = "Beta"    -> "Beta"
      [] c = "Stable"  -> "Stable"

\* rustc.version and rustc.meta are the Results of version() and
\* version_meta(): None is Err.  version_meta().unwrap() panics on Err.
CompilerInfoCollect(rustc) ==
    IF rustc.version # None
    THEN IF rustc.meta = None
         THEN [ panicked |-> TRUE, info |-> NoInfo,
                effects |-> << "rustc_version::version", "rustc_version::version_meta" >> ]
         ELSE LET meta == rustc.meta[1] IN
              [ panicked |-> FALSE,
                info |-> [ version     |-> rustc.version[1],
                           host        |-> meta.host,
                           release     |-> meta.short_version_string,
                           commit_hash |-> UnwrapOr(meta.commit_hash, "Unknown"),
                           commit_date |-> UnwrapOr(meta.commit_date, "Unknown"),
                           channel     |-> ChannelString(meta.channel) ],
                effects |-> << "rustc_version::version", "rustc_version::version_meta" >> ]
    ELSE [ panicked |-> FALSE,
           info |-> [ version     |-> "rustc not found.",
                      host        |-> "Unknown",
                      release     |-> "Unknown",
                      commit_hash |-> "Unknown",
                      commit_date |-> "Unknown",
                      channel     |-> "Unknown" ],
           effects |-> << "rustc_version::version" >> ]

CompilerInfoDisplay(c) ==
    << "  ----------Compiler----------",
       "    Version     : " \o c.version,
       "    Host        : " \o c.host,
       "    Release     : " \o c.release,
       "    Commit Hash : " \o c.commit_hash,
       "    Commit Date : " \o c.commit_date,
       "    Channel     : " \o c.channel >>

-----------------------------------------------------------------------------
(* ToolInfo and extract_version_number (main.rs 174-215).                  *)

\* An invalid byte of the captured output; from_utf8_lossy replaces it.
BadByte == "\\xFF"

ReplacementChar == "\\u{FFFD}"

WhiteSpace == {" ", "\t", "\n"}

IsWhite(c) == c \in WhiteSpace

FromUtf8Lossy(bytes) ==
    [i \in 1..Len(bytes) |-> IF bytes[i] = BadByte THEN ReplacementChar ELSE bytes[i]]

RECURSIVE TrimStart(_)
TrimStart(cs) ==
    IF cs # <<>> /\ IsWhite(Head(cs)) THEN TrimStart(Tail(cs)) ELSE cs

RECURSIVE TrimEnd(_)
TrimEnd(cs) ==
    IF cs # <<>> /\ IsWhite(cs[Len(cs)]) THEN TrimEnd(SubSeq(cs, 1, Len(cs) - 1)) ELSE cs

Trim(cs) == TrimEnd(TrimStart(cs))

\* The first word of a sequence that starts with a non-white character.
RECURSIVE TakeWord(_)
TakeWord(cs) ==
    IF cs = <<>> \/ IsWhite(Head(cs)) THEN <<>> ELSE <<Head(cs)>> \o TakeWord(Tail(cs))

RECURSIVE SplitWhitespace(_)
SplitWhitespace(cs) ==
    LET rest == TrimStart(cs) IN
    IF rest = <<>> THEN <<>>
    ELSE LET w == TakeWord(rest)
         IN  <<w>> \o SplitWhitespace(SubSeq(rest, Len(w) + 1, Len(rest)))

\* Iterator::nth, zero-based.
Nth(s, n) == IF n + 1 <= Len(s) THEN Some(s[n + 1]) ELSE None

\* A variant that takes the first word (nth(0)).
extract_version_number_First(cs) ==
    LET first == Nth(SplitWhitespace(cs), 0)
    IN  IF first = None THEN "Unknown" ELSE Str(first[1])

extract_version_number(cs) ==
    LET second == Nth(SplitWhitespace(cs), 1)
    IN  IF second = None THEN "Unknown" ELSE Str(second[1])

\* A variant of collect that runs the command without the presence check.
ToolInfoCollect_NoPresenceCheck(name, command, tool) ==
    IF tool.spawn_ok
    THEN [ info |-> [ name |-> name,
                      version |-> Str(UnwrapOr(Nth(SplitWhitespace(Trim(FromUtf8Lossy(tool.stdout))), 1),
                                               << "Unknown" >>)) ],
           effects |-> << "spawn " \o command \o " --version" >> ]
    ELSE [ info |-> [ name |-> name, version |-> "Failed to get " \o name \o " version." ],
           effects |-> << "spawn " \o command \o " --version" >> ]

\* tool.present: which(command).is_ok(); tool.spawn_ok: Command::output()
\* returned Ok; tool.stdout: the bytes captured.
ToolInfoCollect(name, command, tool) ==
    IF tool.present
    THEN IF tool.spawn_ok
         THEN [ info |-> [ name |-> name,
                           version |-> extract_version_number(Trim(FromUtf8Lossy(tool.stdout))) ],
                effects |-> << "which " \o command, "spawn " \o command \o " --version" >> ]
         ELSE [ info |-> [ name |-> name,
                           version |-> "Failed to get " \o name \o " version." ],
                effects |-> << "which " \o command, "spawn " \o command \o " --version" >> ]
    ELSE [ info |-> [ name |-> name, version |-> name \o " not found." ],
           effects |-> << "which " \o command >> ]

ToolInfoDisplay(t) ==
    << "  --------------------",
       "    " \o t.name \o " Version: " \o t.version >>

-----------------------------------------------------------------------------
(* toml::Value, as far as the code reads it (get, as_str, as_table,        *)
(* as_array).  A table holds its entries in the order of the document;     *)
(* the parser rejects a repeated key, so the keys of a table are distinct. *)

VStr(s) == [t |-> "String", s |-> s, e |-> <<>>]

VInt == [t |-> "Integer", s |-> "", e |-> <<>>]

VTable(entries) == [t |-> "Table", s |-> "", e |-> entries]

VArray(items) == [t |-> "Array", s |-> "", e |-> items]

KV(k, v) == [k |-> k, v |-> v]

\* Value::get(key): Some only on a table that has the key.
Get(o, key) ==
    IF o = None THEN None
    ELSE LET v == o[1] IN
         IF v.t = "Table" /\ \E i \in 1..Len(v.e) : v.e[i].k = key
         THEN Some(v.e[CHOOSE i \in 1..Len(v.e) : v.e[i].k = key].v)
         ELSE None

AsStr(o) == IF o # None /\ o[1].t = "String" THEN Some(o[1].s) ELSE None

AsTable(o) == IF o # None /\ o[1].t = "Table" THEN Some(o[1].e) ELSE None

AsArray(o) == IF o # None /\ o[1].t = "Array" THEN Some(o[1].e) ELSE None

\* The dependency names of the model, in ascending byte order (the order of
\* String's Ord, which a BTreeMap iterates in).
KeyOrder == << "bar", "foo" >>

RECURSIVE SortedFrom(_, _)
SortedFrom(entries, i) ==
    IF i > Len(KeyOrder) THEN <<>>
    ELSE SelectSeq(entries, LAMBDA en : en.k = KeyOrder[i]) \o SortedFrom(entries, i + 1)

\* A variant of the iteration that is in insertion order in every build.
TableIter_InsertionOrder(entries, preserve_order) == entries

\* Iteration of a toml Table (`for (dep_name, value) in deps`): toml's Map
\* is a BTreeMap, iterated in ascending key order, unless the crate is built
\* with its preserve_order feature, which makes it an IndexMap iterated in
\* insertion order.
TableIter(entries, preserve_order) ==
    IF preserve_order THEN entries ELSE SortedFrom(entries, 1)

-----------------------------------------------------------------------------
(* ProjectInfo (main.rs 217-337).                                          *)
(* A file is [exists, readable, parsed]: Path::exists, read_to_string is   *)
(* Ok, and the result of str::parse::<Value> (None is Err).                *)

EmptyMap == [x \in {} |-> ""]

\* A variant of the insertion that keeps an entry already present.
MapInsert_KeepFirst(m, k, v) == [x \in DOMAIN m \cup {k} |-> IF x \in DOMAIN m THEN m[x] ELSE v]

\* HashMap::insert
MapInsert(m, k, v) == [x \in DOMAIN m \cup {k} |-> IF x = k THEN v ELSE m[x]]

\* HashMap::get
MapGet(m, k) == IF k \in DOMAIN m THEN Some(m[k]) ELSE None

\* The loop of lines 255-266 over the lockfile's package array.
RECURSIVE LockInsertAll(_, _)
LockInsertAll(m, packages) ==
    IF packages = <<>> THEN m
    ELSE LET package == Some(Head(packages))
             name    == AsStr(Get(package, "name"))
             version == AsStr(Get(package, "version"))
         IN  LockInsertAll(IF name # None /\ version # None
                           THEN MapInsert(m, name[1], version[1])
                           ELSE m,
                           Tail(packages))

\* dep_versions, lines 247-270.
DepVersions(lock) ==
    IF lock.exists /\ lock.readable /\ lock.parsed # None
    THEN LET packages == AsArray(Get(lock.parsed, "package"))
         IN  IF packages # None THEN LockInsertAll(EmptyMap, packages[1]) ELSE EmptyMap
    ELSE EmptyMap

\* A variant of lines 277-289 that reads string entries only.
SpecifiedVersion_StringOnly(value) ==
    IF AsStr(Some(value)) # None THEN AsStr(Some(value))[1] ELSE "Unknown"

\* Lines 277-289.
SpecifiedVersion(value) ==
    IF AsStr(Some(value)) # None THEN AsStr(Some(value))[1]
    ELSE IF AsTable(Some(value)) # None
         THEN LET version_str == AsStr(Get(Some(value), "version"))
              IN  IF version_str # None THEN version_str[1] ELSE "Unknown"
         ELSE "Unknown"

\* Lines 276-301, one DependencyInfo per entry iterated.
DependencyInfoOf(entry, dep_versions) ==
    [ name              |-> entry.k,
      specified_version |-> SpecifiedVersion(entry.v),
      resolved_version  |-> UnwrapOr(MapGet(dep_versions, entry.k), "Unknown") ]

Dependencies(doc, dep_versions, preserve_order) ==
    LET deps == AsTable(Get(doc, "dependencies")) IN
    IF deps = None THEN <<>>
    ELSE LET it == TableIter(deps[1], preserve_order)
         IN  [i \in 1..Len(it) |-> DependencyInfoOf(it[i], dep_versions)]

FileEffects(path, f) ==
    << "exists " \o path >> \o (IF f.exists THEN << "read " \o path >> ELSE <<>>)

\* A variant of collect whose name and version start empty.
ProjectInfoCollect_EmptyDefaults(manifest, lock, preserve_order) ==
    IF manifest.exists /\ manifest.readable /\ manifest.parsed # None
    THEN LET package == Get(manifest.parsed, "package") IN
         [ info |->
             [ kind         |-> "project",
               name         |-> UnwrapOr(AsStr(Get(package, "name")), "Unknown"),
               version      |-> UnwrapOr(AsStr(Get(package, "version")), "Unknown"),
               dependencies |-> Dependencies(manifest.parsed, DepVersions(lock),
                                             preserve_order) ],
           effects |-> FileEffects("Cargo.toml", manifest) \o FileEffects("Cargo.lock", lock) ]
    ELSE [ info |-> [ kind |-> "project", name |-> "", version |-> "",
                      dependencies |-> <<>> ],
           effects |-> FileEffects("Cargo.toml", manifest) ]

ProjectInfoCollect(manifest, lock, preserve_order) ==
    IF manifest.exists /\ manifest.readable /\ manifest.parsed # None
    THEN LET package == Get(manifest.parsed, "package") IN
         [ info |->
             [ kind         |-> "project",
               name         |-> UnwrapOr(AsStr(Get(package, "name")), "Unknown"),
               version      |-> UnwrapOr(AsStr(Get(package, "version")), "Unknown"),
               dependencies |-> Dependencies(manifest.parsed, DepVersions(lock),
                                             preserve_order) ],
           effects |-> FileEffects("Cargo.toml", manifest) \o FileEffects("Cargo.lock", lock) ]
    ELSE [ info |-> [ kind |-> "project", name |-> "Unknown", version |-> "Unknown",
                      dependencies |-> <<>> ],
           effects |-> FileEffects("Cargo.toml", manifest) ]

DependencyLine(dep) ==
    "    - " \o dep.name \o " " \o dep.specified_version \o " (" \o dep.resolved_version \o ")"

ProjectInfoDisplay(p) ==
    << "==========Project Information==========",
       "  Name    : " \o p.name,
       "  Version : " \o p.version >>
    \o (IF p.dependencies = <<>>
        THEN << "  Dependencies: None" >>
        ELSE << "  Dependencies:" >>
             \o [i \in 1..Len(p.dependencies) |-> DependencyLine(p.dependencies[i])])

-----------------------------------------------------------------------------
(* RustInfo (main.rs 101-122): the three collectors in field order; a      *)
(* panic of the first leaves the other two uncalled.                       *)

RustInfoCollect(rustc, cargo, rustup) ==
    LET c == CompilerInfoCollect(rustc) IN
    IF c.panicked
    THEN [ panicked |-> TRUE, info |-> NoInfo, effects |-> c.effects ]
    ELSE LET t1 == ToolInfoCollect("Cargo", "cargo", cargo)
             t2 == ToolInfoCollect("Rustup", "rustup", rustup)
         IN  [ panicked |-> FALSE,
               info |-> [ kind |-> "rust", compiler |-> c.info,
                          cargo |-> t1.info, rustup |-> t2.info ],
               effects |-> c.effects \o t1.effects \o t2.effects ]

RustInfoDisplay(r) ==
    << "==========Rust Information==========" >>
    \o CompilerInfoDisplay(r.compiler)
    \o ToolInfoDisplay(r.cargo)
    \o ToolInfoDisplay(r.rustup)

-----------------------------------------------------------------------------
(* Inputs of a run of main.                                                *)

Chars_cargo_version ==
    << "c","a","r","g","o"," ","1",".","7","5",".","0"," ","(","h","a","s","h"," ",
       "2","0","2","3","-","1","2","-","0","1",")","\n" >>

Chars_singleword == << "s","i","n","g","l","e","w","o","r","d" >>

Hosts ==
    { [ name |-> Some("Ubuntu"), os_version |-> Some("22.04"), brand |-> "Ryzen",
        physical_core_count |-> Some(8), used_memory |-> U64(1024, 0),
        total_memory |-> U64(2048, 0), shell |-> Some("/bin/bash") ],
      [ name |-> None, os_version |-> None, brand |-> "",
        physical_core_count |-> None, used_memory |-> U64(1, 0),
        total_memory |-> U64(2, 0), shell |-> None ],
      [ name |-> Some("Darwin"), os_version |-> None, brand |-> "M1",
        physical_core_count |-> Some(4), used_memory |-> U64(1536, 131072),
        total_memory |-> U64(16383, 1048575), shell |-> Some("/bin/zsh") ] }

Meta(hash, date, channel) ==
    [ host |-> "x86_64-unknown-linux-gnu", short_version_string |-> "rustc 1.75.0",
      commit_hash |-> hash, commit_date |-> date, channel |-> channel ]

Rustcs ==
    { [ version |-> None, meta |-> None ],
      [ version |-> Some("1.75.0"), meta |-> None ],
      [ version |-> Some("1.75.0"), meta |-> Some(Meta(Some("82e1608d"), Some("2023-12-21"), "Stable")) ],
      [ version |-> Some("1.75.0"), meta |-> Some(Meta(None, None, "Dev")) ],
      [ version |-> Some("1.75.0"), meta |-> Some(Meta(Some("82e1608d"), None, "Nightly")) ],
      [ version |-> Some("1.75.0"), meta |-> Some(Meta(None, Some("2023-12-21"), "Beta")) ] }

Tool(present, spawn_ok, stdout) ==
    [ present |-> present, spawn_ok |-> spawn_ok, stdout |-> stdout ]

MainTools ==
    { Tool(FALSE, FALSE, <<>>), Tool(TRUE, FALSE, <<>>),
      Tool(TRUE, TRUE, Chars_cargo_version), Tool(TRUE, TRUE, Chars_singleword) }

File(exists, readable, parsed) ==
    [ exists |-> exists, readable |-> readable, parsed |-> parsed ]

MissingFile == File(FALSE, FALSE, None)

UnreadableFile == File(TRUE, FALSE, None)

UnparseableFile == File(TRUE, TRUE, None)

OkFile(doc) == File(TRUE, TRUE, Some(doc))

PackageFull == KV("package", VTable(<< KV("name", VStr("envin")), KV("version", VStr("0.0.2")) >>))

FooBarManifest ==
    OkFile(VTable(<< PackageFull,
                     KV("dependencies",
                        VTable(<< KV("foo", VStr("1.0")),
                                  KV("bar", VTable(<< KV("version", VStr("2.0")),
                                                      KV("features", VArray(<< VStr("derive") >>)) >>)) >>)) >>))

LockRecord(name, version) == VTable(<< KV("name", VStr(name)), KV("version", VStr(version)) >>)

FooLock == OkFile(VTable(<< KV("package", VArray(<< LockRecord("foo", "1.0.3") >>)) >>))

Project(manifest, lock, preserve_order) ==
    [ manifest |-> manifest, lock |-> lock, preserve_order |-> preserve_order ]

MainProjects ==
    { Project(MissingFile, FooLock, FALSE),
      Project(UnparseableFile, MissingFile, FALSE),
      Project(FooBarManifest, FooLock, FALSE),
      Project(FooBarManifest, MissingFile, TRUE) }

-----------------------------------------------------------------------------
(* main (main.rs 34-56).                                                   *)

Args == [system : BOOLEAN, rust : BOOLEAN, project : BOOLEAN, all : BOOLEAN]

\* A variant of line 37 that drops the no-flag default.
AllOf_OnlyAllFlag(a) == a.all

\* Line 37.
AllOf(a) == a.all \/ (~a.system /\ ~a.rust /\ ~a.project)

Init ==
    /\ pc = "start"
    /\ args \in Args
    /\ all = FALSE
    /\ env = NoInfo
    /\ info = NoInfo
    /\ out = <<>>
    /\ trace = <<>>
    /\ exit = "running"

Start ==
    /\ pc = "start"
    /\ all' = AllOf(args)
    /\ pc' = "system_if"
    /\ UNCHANGED <<args, env, info, out, trace, exit>>

SystemSkip ==
    /\ pc = "system_if"
    /\ ~(args.system \/ all)
    /\ pc' = "rust_if"
    /\ UNCHANGED <<args, all, env, info, out, trace, exit>>

SystemCollectStep ==
    /\ pc = "system_if"
    /\ args.system \/ all
    /\ \E h \in Hosts :
         LET r == SystemInfoCollect(h) IN
         /\ env' = h
         /\ info' = r.info
         /\ trace' = trace \o << "SystemInfo::collect" >> \o r.effects
    /\ pc' = "system_display"
    /\ UNCHANGED <<args, all, out, exit>>

SystemDisplayStep ==
    /\ pc = "system_display"
    /\ out' = out \o SystemInfoDisplay(info)
    /\ trace' = Append(trace, "SystemInfo::display")
    /\ pc' = "system_println"
    /\ UNCHANGED <<args, all, env, info, exit>>

SystemPrintln ==
    /\ pc = "system_println"
    /\ out' = Append(out, "")
    /\ trace' = Append(trace, "println")
    /\ pc' = "rust_if"
    /\ UNCHANGED <<args, all, env, info, exit>>

RustSkip ==
    /\ pc = "rust_if"
    /\ ~(args.rust \/ all)
    /\ pc' = "project_if"
    /\ UNCHANGED <<args, all, env, info, out, trace, exit>>

RustCollectStep ==
    /\ pc = "rust_if"
    /\ args.rust \/ all
    /\ \E rustc \in Rustcs, cargo \in MainTools, rustup \in MainTools :
         LET r == RustInfoCollect(rustc, cargo, rustup) IN
         /\ env' = [rustc |-> rustc, cargo |-> cargo, rustup |-> rustup]
         /\ info' = r.info
         /\ IF r.panicked
            THEN /\ trace' = trace \o << "RustInfo::collect" >> \o r.effects \o << "panic" >>
                 /\ pc' = "panicked"
                 /\ exit' = 101
            ELSE /\ trace' = trace \o << "RustInfo::collect" >> \o r.effects
                 /\ pc' = "rust_display"
                 /\ exit' = exit
    /\ UNCHANGED <<args, all, out>>

RustDisplayStep ==
    /\ pc = "rust_display"
    /\ out' = out \o RustInfoDisplay(info)
    /\ trace' = Append(trace, "RustInfo::display")
    /\ pc' = "rust_println"
    /\ UNCHANGED <<args, all, env, info, exit>>

RustPrintln ==
    /\ pc = "rust_println"
    /\ out' = Append(out, "")
    /\ trace' = Append(trace, "println")
    /\ pc' = "project_if"
    /\ UNCHANGED <<args, all, env, info, exit>>

ProjectSkip ==
    /\ pc = "project_if"
    /\ ~(args.project \/ all)
    /\ pc' = "end"
    /\ UNCHANGED <<args, all, env, info, out, trace, exit>>

ProjectCollectStep ==
    /\ pc = "project_if"
    /\ args.project \/ all
    /\ \E p \in MainProjects :
         LET r == ProjectInfoCollect(p.manifest, p.lock, p.preserve_order) IN
         /\ env' = p
         /\ info' = r.info
         /\ trace' = trace \o << "ProjectInfo::collect" >> \o r.effects
    /\ pc' = "project_display"
    /\ UNCHANGED <<args, all, out, exit>>

ProjectDisplayStep ==
    /\ pc = "project_display"
    /\ out' = out \o ProjectInfoDisplay(info)
    /\ trace' = Append(trace, "ProjectInfo::display")
    /\ pc' = "project_println"
    /\ UNCHANGED <<args, all, env, info, exit>>

ProjectPrintln ==
    /\ pc = "project_println"
    /\ out' = Append(out, "")
    /\ trace' = Append(trace, "println")
    /\ pc' = "end"
    /\ UNCHANGED <<args, all, env, info, exit>>

\* main returns: the process exits with status 0.
Return ==
    /\ pc = "end"
    /\ pc' = "done"
    /\ exit' = 0
    /\ UNCHANGED <<args, all, env, info, out, trace>>

Next ==
    \/ Start
    \/ SystemSkip
    \/ SystemCollectStep
    \/ SystemDisplayStep
    \/ SystemPrintln
    \/ RustSkip
    \/ RustCollectStep
    \/ RustDisplayStep
    \/ RustPrintln
    \/ ProjectSkip
    \/ ProjectCollectStep
    \/ ProjectDisplayStep
    \/ ProjectPrintln
    \/ Return

Spec == Init /\ [][Next]_vars

-----------------------------------------------------------------------------
(* ToolInfo::collect and display on their own, over every captured output  *)
(* of at most MaxOut bytes and the two outputs of the documentation.       *)

SeqsUpTo(S, n) == UNION { [1..k -> S] : k \in 0..n }

Alphabet == { "a", "1", " ", "\n", BadByte }

Outputs == SeqsUpTo(Alphabet, MaxOut) \cup { Chars_cargo_version, Chars_singleword }

ToolNames == { [name |-> "Cargo", command |-> "cargo"],
               [name |-> "Rustup", command |-> "rustup"] }

InitTool ==
    /\ pc = "tool_start"
    /\ args \in ToolNames
    /\ all = FALSE
    /\ env \in { Tool(p, s, o) : p \in BOOLEAN, s \in BOOLEAN, o \in Outputs }
    /\ info = NoInfo
    /\ out = <<>>
    /\ trace = <<>>
    /\ exit = "running"

CollectTool ==
    /\ pc = "tool_start"
    /\ LET r == ToolInfoCollect(args.name, args.command, env) IN
       /\ info' = r.info
       /\ trace' = trace \o r.effects
    /\ pc' = "tool_collected"
    /\ UNCHANGED <<args, all, env, out, exit>>

DisplayTool ==
    /\ pc = "tool_collected"
    /\ out' = out \o ToolInfoDisplay(info)
    /\ pc' = "tool_displayed"
    /\ UNCHANGED <<args, all, env, info, trace, exit>>

NextTool == CollectTool \/ DisplayTool

SpecTool == InitTool /\ [][NextTool]_vars

-----------------------------------------------------------------------------
(* ProjectInfo::collect and display on their own, over manifests with any  *)
(* arrangement of the dependency names and lockfiles of at most            *)
(* MaxLockPkgs package records.                                            *)

DepEntryValues ==
    { VStr("1.0"),
      VTable(<< KV("version", VStr("2.0")), KV("features", VArray(<< VStr("derive") >>)) >>),
      VTable(<< KV("features", VArray(<< VStr("derive") >>)) >>),
      VTable(<< KV("version", VInt) >>),
      VInt }

DepEntries == { KV(KeyOrder[i], v) : i \in 1..Len(KeyOrder), v \in DepEntryValues }

DistinctKeys(entries) ==
    \A i, j \in 1..Len(entries) : i # j => entries[i].k # entries[j].k

DepTables == { t \in SeqsUpTo(DepEntries, Len(KeyOrder)) : DistinctKeys(t) }

DepSections ==
    { <<>>, << KV("dependencies", VInt) >> }
    \cup { << KV("dependencies", VTable(t)) >> : t \in DepTables }

ManifestDocs ==
    { VTable(<< PackageFull >> \o d) : d \in DepSections }
    \cup { VTable(<<>>),
           VTable(<< KV("package", VInt) >>),
           VTable(<< KV("package", VTable(<< KV("name", VStr("envin")), KV("version", VInt) >>)) >>) }

Manifests ==
    { MissingFile, UnreadableFile, UnparseableFile } \cup { OkFile(d) : d \in ManifestDocs }

LockVersionParts ==
    { << KV("version", VInt) >> } \cup { << KV("version", VStr(v)) >> : v \in { "1.0.3", "1.0.4" } }

LockRecords ==
    { VTable(<< KV("name", VStr(n)) >> \o v) : n \in { "foo", "libc" }, v \in LockVersionParts }
    \cup { VTable(<< KV("version", VStr("1.0.3")) >>) }

LockDocs ==
    { VTable(<<>>), VTable(<< KV("package", VInt) >>) }
    \cup { VTable(<< KV("package", VArray(a)) >>) : a \in SeqsUpTo(LockRecords, MaxLockPkgs) }

Locks ==
    { MissingFile, UnreadableFile, UnparseableFile } \cup { OkFile(d) : d \in LockDocs }

InitProject ==
    /\ pc = "project_start"
    /\ args = NoInfo
    /\ all = FALSE
    /\ env \in { Project(m, l, po) : m \in Manifests, l \in Locks, po \in BOOLEAN }
    /\ info = NoInfo
    /\ out = <<>>
    /\ trace = <<>>
    /\ exit = "running"

CollectProject ==
    /\ pc = "project_start"
    /\ LET r == ProjectInfoCollect(env.manifest, env.lock, env.preserve_order) IN
       /\ info' = r.info
       /\ trace' = trace \o r.effects
    /\ pc' = "project_collected"
    /\ UNCHANGED <<args, all, env, out, exit>>

DisplayProject ==
    /\ pc = "project_collected"
    /\ out' = out \o ProjectInfoDisplay(info)
    /\ pc' = "project_displayed"
    /\ UNCHANGED <<args, all, env, info, trace, exit>>

NextProject == CollectProject \/ DisplayProject

SpecProject == InitProject /\ [][NextProject]_vars

-----------------------------------------------------------------------------
(* Properties of main, checked under Spec.                                 *)

InTrace(e) == \E i \in 1..Len(trace) : trace[i] = e

Count(e) == Cardinality({ i \in 1..Len(trace) : trace[i] = e })

\* The resolution rule of the argument selector, as the documentation states it.
Wanted(a, flag) ==
    IF a.all \/ (~a.system /\ ~a.rust /\ ~a.project) THEN TRUE ELSE flag

PastSystemIf == pc \notin { "start", "system_if" }

PastRustIf == PastSystemIf /\ pc \notin { "system_display", "system_println", "rust_if" }

PastProjectIf == pc \in { "project_display", "project_println", "end", "done" }

\* C1: whatever the four flags, a section's branch is taken exactly when all
\* is set, or none of system/rust/project is set, or the section's own flag
\* is set; a run that returns has displayed exactly the sections so selected
\* (so no flag at all gives the sections of --system --rust --project).
C1_SectionSelection ==
    /\ InTrace("SystemInfo::collect") => Wanted(args, args.system)
    /\ InTrace("RustInfo::collect") => Wanted(args, args.rust)
    /\ InTrace("ProjectInfo::collect") => Wanted(args, args.project)
    /\ PastSystemIf => (InTrace("SystemInfo::collect") <=> Wanted(args, args.system))
    /\ PastRustIf => (InTrace("RustInfo::collect") <=> Wanted(args, args.rust))
    /\ PastProjectIf => (InTrace("ProjectInfo::collect") <=> Wanted(args, args.project))
    /\ pc = "done" =>
         /\ InTrace("SystemInfo::display") <=> Wanted(args, args.system)
         /\ InTrace("RustInfo::display") <=> Wanted(args, args.rust)
         /\ InTrace("ProjectInfo::display") <=> Wanted(args, args.project)

C1_Witness ==
    /\ pc = "done"
    /\ args = [system |-> FALSE, rust |-> FALSE, project |-> FALSE, all |-> FALSE]
    /\ InTrace("SystemInfo::display")
    /\ InTrace("RustInfo::display")
    /\ InTrace("ProjectInfo::display")

\* C2: no run ends in a process failure: the process never panics and its
\* exit status, once set, is 0.
C2_ExitAlwaysSuccess ==
    /\ pc # "panicked"
    /\ exit \in { "running", 0 }

\* C8: used = 1073741824 bytes and total = 2147483648 bytes render as
\* "1.00 GB / 2.00 GB".
C8_OneGiBOfTwo ==
    (info.kind = "system" /\ env.used_memory = U64(1024, 0) /\ env.total_memory = U64(2048, 0))
        => info.memory = "1.00 GB / 2.00 GB"

Terminated == pc \in { "done", "panicked" }

IndexOf(e) == CHOOSE i \in 1..Len(trace) : trace[i] = e

\* A section was collected, then displayed, then followed by a blank line.
Emitted(name) ==
    /\ Count(name \o "::collect") = 1
    /\ Count(name \o "::display") = 1
    /\ IndexOf(name \o "::collect") < IndexOf(name \o "::display")
    /\ IndexOf(name \o "::display") < Len(trace)
    /\ trace[IndexOf(name \o "::display") + 1] = "println"

NotTouched(name, effects) ==
    /\ ~InTrace(name \o "::collect")
    /\ ~InTrace(name \o "::display")
    /\ \A i \in 1..Len(trace) : trace[i] \notin effects

SystemEffects == { "sysinfo::System::new_all", "sysinfo::System::refresh_all", "env::var SHELL" }

RustEffects ==
    { "rustc_version::version", "rustc_version::version_meta", "which cargo", "which rustup",
      "spawn cargo --version", "spawn rustup --version" }

ProjectEffects ==
    { "exists Cargo.toml", "read Cargo.toml", "exists Cargo.lock", "read Cargo.lock" }

\* C9: when the run has ended, every selected section was collected and then
\* displayed exactly once, followed at once by a blank line, in the order
\* System, Toolchain, Project; an unselected section was neither collected
\* nor displayed and none of its queries, spawns or reads happened.
C9_SectionsInOrder ==
    Terminated =>
      /\ IF Wanted(args, args.system) THEN Emitted("SystemInfo")
         ELSE NotTouched("SystemInfo", SystemEffects)
      /\ IF Wanted(args, args.rust) THEN Emitted("RustInfo")
         ELSE NotTouched("RustInfo", RustEffects)
      /\ IF Wanted(args, args.project) THEN Emitted("ProjectInfo")
         ELSE NotTouched("ProjectInfo", ProjectEffects)
      /\ (Wanted(args, args.system) /\ Wanted(args, args.rust))
            => IndexOf("SystemInfo::display") < IndexOf("RustInfo::collect")
      /\ (Wanted(args, args.rust) /\ Wanted(args, args.project))
            => IndexOf("RustInfo::display") < IndexOf("ProjectInfo::collect")
      /\ (Wanted(args, args.system) /\ Wanted(args, args.project))
            => IndexOf("SystemInfo::display") < IndexOf("ProjectInfo::collect")
      /\ Count("println") = Cardinality({ n \in { "SystemInfo", "RustInfo", "ProjectInfo" } :
                                            InTrace(n \o "::display") })

-----------------------------------------------------------------------------
(* Properties of ToolInfo::collect, checked under SpecTool.                *)

ToolCollected == pc \in { "tool_collected", "tool_displayed" }

SpawnEvent == "spawn " \o args.command \o " --version"

WhichEvent == "which " \o args.command

\* C3: for an executable that is not on the search path the version is
\* "<display_name> not found." and no subprocess is spawned; a spawn is
\* always preceded by the presence check and happens only when it succeeded.
C3_AbsentToolNotSpawned ==
    /\ (ToolCollected /\ ~env.present) =>
          /\ info.version = args.name \o " not found."
          /\ ~InTrace(SpawnEvent)
    /\ InTrace(SpawnEvent) =>
          /\ env.present
          /\ InTrace(WhichEvent)
          /\ IndexOf(WhichEvent) < IndexOf(SpawnEvent)

C3_Witness ==
    /\ pc = "tool_collected"
    /\ ~env.present
    /\ env.spawn_ok
    /\ env.stdout = Chars_cargo_version
    /\ info = [name |-> "Cargo", version |-> "Cargo not found."]
    /\ trace = << "which cargo" >>

\* The text the code splits: the captured bytes with each invalid byte
\* replaced by U+FFFD.
Decoded == [i \in 1..Len(env.stdout) |-> IF env.stdout[i] = BadByte THEN ReplacementChar
                                         ELSE env.stdout[i]]

\* <<i, j>> is a token of Decoded: a maximal run of non-white characters.
IsToken(i, j) ==
    /\ i <= j
    /\ \A k \in i..j : Decoded[k] \notin WhiteSpace
    /\ i = 1 \/ Decoded[i - 1] \in WhiteSpace
    /\ j = Len(Decoded) \/ Decoded[j + 1] \in WhiteSpace

Tokens == { t \in (1..Len(Decoded)) \X (1..Len(Decoded)) : IsToken(t[1], t[2]) }

TokensBefore(t) == { u \in Tokens : u[1] < t[1] }

\* C4: for an executable that is on the search path, a failed invocation
\* gives "Failed to get <display_name> version."; a successful one gives the
\* second whitespace-delimited token of the captured output, or "Unknown"
\* when there are fewer than two tokens; "cargo 1.75.0 (hash 2023-12-01)"
\* gives "1.75.0" and "singleword" gives "Unknown".
C4_PresentToolVersion ==
    (ToolCollected /\ env.present) =>
      /\ ~env.spawn_ok => info.version = "Failed to get " \o args.name \o " version."
      /\ (env.spawn_ok /\ Cardinality(Tokens) < 2) => info.version = "Unknown"
      /\ (env.spawn_ok /\ Cardinality(Tokens) >= 2) =>
            \E t \in Tokens :
               /\ Cardinality(TokensBefore(t)) = 1
               /\ info.version = Str(SubSeq(Decoded, t[1], t[2]))
      /\ (env.spawn_ok /\ env.stdout = Chars_cargo_version) => info.version = "1.75.0"
      /\ (env.spawn_ok /\ env.stdout = Chars_singleword) => info.version = "Unknown"

C4_Witness ==
    /\ pc = "tool_collected"
    /\ env.present
    /\ env.spawn_ok
    /\ env.stdout = Chars_cargo_version
    /\ info = [name |-> "Cargo", version |-> "1.75.0"]

-----------------------------------------------------------------------------
(* Properties of ProjectInfo::collect, checked under SpecProject.          *)

ProjectCollected == pc \in { "project_collected", "project_displayed" }

ManifestOk == env.manifest.exists /\ env.manifest.readable /\ env.manifest.parsed # None

\* C5: a manifest that does not exist, cannot be read or does not parse
\* gives name "Unknown", version "Unknown" and no dependency, whatever the
\* lockfile, and display prints "  Dependencies: None".
C5_NoManifestDefaults ==
    (ProjectCollected /\ ~ManifestOk) =>
      /\ info.name = "Unknown"
      /\ info.version = "Unknown"
      /\ info.dependencies = <<>>
      /\ pc = "project_displayed" =>
            out = << "==========Project Information==========",
                     "  Name    : Unknown",
                     "  Version : Unknown",
                     "  Dependencies: None" >>

C5_Witness ==
    /\ pc = "project_displayed"
    /\ env.manifest = UnparseableFile
    /\ env.lock = FooLock
    /\ info.dependencies = <<>>
    /\ out[Len(out)] = "  Dependencies: None"

\* The entries of the manifest's dependencies table, in the order declared.
Declared ==
    LET doc == env.manifest.parsed[1].e
        sec == { i \in 1..Len(doc) : doc[i].k = "dependencies" /\ doc[i].v.t = "Table" }
    IN  IF sec = {} THEN <<>> ELSE doc[CHOOSE i \in sec : TRUE].v.e

\* The version sub-field of a table-valued entry, when it is a string.
TableVersions(v) ==
    { v.e[i].v.s : i \in { j \in 1..Len(v.e) : v.e[j].k = "version" /\ v.e[j].v.t = "String" } }

ExpectedSpecified(v) ==
    IF v.t = "String" THEN v.s
    ELSE IF v.t = "Table" /\ TableVersions(v) # {} THEN CHOOSE x \in TableVersions(v) : TRUE
    ELSE "Unknown"

\* The package records of the lockfile, in file order (none when the
\* lockfile is missing, unreadable, unparseable or has no package list).
LockPackages ==
    IF env.lock.exists /\ env.lock.readable /\ env.lock.parsed # None
    THEN LET doc == env.lock.parsed[1].e
             sec == { i \in 1..Len(doc) : doc[i].k = "package" /\ doc[i].v.t = "Array" }
         IN  IF sec = {} THEN <<>> ELSE doc[CHOOSE i \in sec : TRUE].v.e
    ELSE <<>>

HasField(rec, key, val) ==
    rec.t = "Table" /\ \E i \in 1..Len(rec.e) : rec.e[i] = KV(key, VStr(val))

HasStringField(rec, key) ==
    rec.t = "Table" /\ \E i \in 1..Len(rec.e) : rec.e[i].k = key /\ rec.e[i].v.t = "String"

\* The positions of the records of the given name that carry a version.
RecordsNamed(n) ==
    { i \in 1..Len(LockPackages) :
        HasField(LockPackages[i], "name", n) /\ HasStringField(LockPackages[i], "version") }

VersionsRecorded(n) ==
    { v \in { "1.0.3", "1.0.4" } : \E i \in RecordsNamed(n) : HasField(LockPackages[i], "version", v) }

InfosNamed(n) == { i \in 1..Len(info.dependencies) : info.dependencies[i].name = n }

\* C6: every entry of the manifest's dependencies section gives exactly one
\* DependencyInfo: its specified_version is the entry's string, or the
\* string "version" sub-field of a table entry, or "Unknown"; its
\* resolved_version is a version the lockfile records for the same name, or
\* "Unknown" when there is none; nothing else is in the list.
C6_OneInfoPerDeclaredDependency ==
    (ProjectCollected /\ ManifestOk) =>
      /\ Len(info.dependencies) = Len(Declared)
      /\ \A k \in 1..Len(Declared) :
           LET en == Declared[k] IN
           /\ Cardinality(InfosNamed(en.k)) = 1
           /\ \A i \in InfosNamed(en.k) :
                /\ info.dependencies[i].specified_version = ExpectedSpecified(en.v)
                /\ IF VersionsRecorded(en.k) = {}
                   THEN info.dependencies[i].resolved_version = "Unknown"
                   ELSE info.dependencies[i].resolved_version \in VersionsRecorded(en.k)

C6_Witness ==
    /\ pc = "project_collected"
    /\ env.manifest = FooBarManifest
    /\ env.lock = OkFile(VTable(<< KV("package", VArray(<< LockRecord("libc", "1.0.4"),
                                                           LockRecord("foo", "1.0.3") >>)) >>))
    /\ { info.dependencies[i] : i \in 1..Len(info.dependencies) } =
         { [name |-> "foo", specified_version |-> "1.0", resolved_version |-> "1.0.3"],
           [name |-> "bar", specified_version |-> "2.0", resolved_version |-> "Unknown"] }

Names(deps) == [i \in 1..Len(deps) |-> deps[i].name]

DeclaredNames == [i \in 1..Len(Declared) |-> Declared[i].k]

\* C7 as stated: the DependencyInfo records are in the declaration order of
\* the manifest's dependencies section.
C7_DeclarationOrder ==
    (ProjectCollected /\ ManifestOk) => Names(info.dependencies) = DeclaredNames

Position(n) == CHOOSE i \in 1..Len(KeyOrder) : KeyOrder[i] = n

\* C7 as amended: the records are in the iteration order of the parsed
\* dependencies table, that is in ascending order of the names, and in the
\* declaration order only in a build with toml's preserve_order feature; the
\* bullet lines printed are in the order of the records.
C7_TableIterationOrder ==
    (ProjectCollected /\ ManifestOk) =>
      /\ { info.dependencies[i].name : i \in 1..Len(info.dependencies) }
           = { Declared[i].k : i \in 1..Len(Declared) }
      /\ ~env.preserve_order =>
           \A i, j \in 1..Len(info.dependencies) :
              i < j => Position(info.dependencies[i].name) < Position(info.dependencies[j].name)
      /\ env.preserve_order => Names(info.dependencies) = DeclaredNames
      /\ (pc = "project_displayed" /\ info.dependencies # <<>>) =>
           /\ Len(out) = 4 + Len(info.dependencies)
           /\ \A i \in 1..Len(info.dependencies) :
                out[4 + i] = "    - " \o info.dependencies[i].name \o " "
                             \o info.dependencies[i].specified_version
                             \o " (" \o info.dependencies[i].resolved_version \o ")"

C7_Witness ==
    /\ pc = "project_displayed"
    /\ ~env.preserve_order
    /\ env.manifest = FooBarManifest
    /\ env.lock = FooLock
    /\ DeclaredNames = << "foo", "bar" >>
    /\ Names(info.dependencies) = << "bar", "foo" >>
    /\ out[5] = "    - bar 2.0 (Unknown)"
    /\ out[6] = "    - foo 1.0 (1.0.3)"

Last(S) == CHOOSE i \in S : \A j \in S : j <= i

\* C10: when several package records of the lockfile have the same name, the
\* lookup holds the version of the last of them that has both a string name
\* and a string version, and that is the resolved_version of a dependency of
\* that name; a record without them changes nothing.
C10_LastRecordWins ==
    (ProjectCollected /\ ManifestOk) =>
      /\ \A n \in { "bar", "foo", "libc" } :
           IF RecordsNamed(n) = {}
           THEN n \notin DOMAIN DepVersions(env.lock)
           ELSE /\ n \in DOMAIN DepVersions(env.lock)
                /\ HasField(LockPackages[Last(RecordsNamed(n))], "version",
                            DepVersions(env.lock)[n])
      /\ \A i \in 1..Len(info.dependencies) :
           LET n == info.dependencies[i].name IN
           RecordsNamed(n) # {} =>
              HasField(LockPackages[Last(RecordsNamed(n))], "version",
                       info.dependencies[i].resolved_version)

C10_Witness ==
    /\ pc = "project_collected"
    /\ env.manifest = FooBarManifest
    /\ env.lock = OkFile(VTable(<< KV("package", VArray(<< LockRecord("foo", "1.0.3"),
                                                           LockRecord("foo", "1.0.4") >>)) >>))
    /\ \E i \in 1..Len(info.dependencies) :
         info.dependencies[i] =
           [name |-> "foo", specified_version |-> "1.0", resolved_version |-> "1.0.4"]

====
